---- MODULE Spec2Model ----
(***************************************************************************)
(* Model of streamlit_app.py, the TXT-to-EPUB converter.                   *)
(*                                                                         *)
(* The program is a Streamlit script: every user interaction first runs    *)
(* the on_change callback of the widget that changed and then executes the *)
(* whole script top to bottom against st.session_state.  One action of the *)
(* model is one interaction followed by the script run it triggers.        *)
(*                                                                         *)
(* Strings are sequences of tokens.  File names are made of the tokens     *)
(* listed in TokRank; chapter texts are sequences of the characters in     *)
(* TextChars.  HTML is the token sequence the f-strings concatenate.       *)
(***************************************************************************)
EXTENDS Integers, Sequences, FiniteSets

VARIABLES
    txt_files,        \* st.session_state.txt_files: dict, as the sequence of its items in insertion order
    epub_file_bytes,  \* st.session_state.epub_file_bytes: None or the written book
    book_title,       \* value of the title text_input
    author_name,      \* value of the author text_input
    book_description, \* value of the description text_area
    cover_image_file, \* the cover file_uploader: None or the image's bytes
    uploaded_files,   \* the main file_uploader: list of uploaded files
    sort_widget,      \* the sort_items component: [items, value]
    page              \* what the last script run rendered

vars == <<txt_files, epub_file_bytes, book_title, author_name, book_description,
          cover_image_file, uploaded_files, sort_widget, page>>

\* an optional value is a sequence of at most one element
None == <<>>
Some(x) == <<x>>

\* no uncaught exception, no message
Nothing == "nothing"

(***************************************************************************)
(* Bounds                                                                  *)
(***************************************************************************)
MaxUploads == 2   \* files held by the main uploader at once
MaxTextLen == 6   \* length of the chapter text drawn for the renderer
MaxEntries == 3   \* entries of the archive drawn for the expander

(***************************************************************************)
(* Python string and list primitives                                       *)
(***************************************************************************)
Range(s) == {s[i] : i \in 1..Len(s)}

\* code point of a token's first character; no token is a prefix of another,
\* so comparing token sequences by it is Python's str comparison
TokRank(t) ==
    CASE t = ".txt" -> 1 [] t = ".png" -> 2 [] t = ".zip" -> 3
      [] t = "/" -> 4 [] t = "__MACOSX" -> 5
      [] t = "a" -> 6 [] t = "b" -> 7 [] t = "cover" -> 8 [] t = "d" -> 9
      [] t = "junk" -> 10 [] t = "notes" -> 11 [] OTHER -> 12

\* tokens that begin with a dot
IsDotTok(t) == t \in {".txt", ".png", ".zip"}

RECURSIVE StrLess(_, _)
StrLess(a, b) ==
    IF a = <<>> THEN b # <<>>
    ELSE IF b = <<>> THEN FALSE
    ELSE IF Head(a) = Head(b) THEN StrLess(Tail(a), Tail(b))
    ELSE TokRank(Head(a)) < TokRank(Head(b))

\* str.endswith / str.startswith with a one-token argument
endswith(s, t) == Len(s) > 0 /\ s[Len(s)] = t
startswith(s, t) == Len(s) > 0 /\ s[1] = t

\* sorted(iterable of str)
RECURSIVE sorted(_)
sorted(S) ==
    IF S = {} THEN <<>>
    ELSE LET m == CHOOSE x \in S : \A y \in S \ {x} : StrLess(x, y)
         IN <<m>> \o sorted(S \ {m})

\* os.path.basename: what follows the last "/"
basename(p) ==
    LET seps == {i \in 1..Len(p) : p[i] = "/"}
    IN IF seps = {} THEN p
       ELSE LET k == CHOOSE i \in seps : \A j \in seps : j <= i
            IN SubSeq(p, k + 1, Len(p))

\* os.path.splitext(p)[0]: cut at the last dot of the last component, unless
\* only dots precede it there
splitext0(p) ==
    LET start == Len(p) - Len(basename(p)) + 1
        dots == {i \in start..Len(p) : IsDotTok(p[i])}
    IN IF dots = {} THEN p
       ELSE LET k == CHOOSE i \in dots : \A j \in dots : j <= i
            IN IF k > start THEN SubSeq(p, 1, k - 1) ELSE p

\* str.split(sep)
RECURSIVE split(_, _)
split(s, sep) ==
    LET at == {i \in 1..Len(s) : s[i] = sep}
    IN IF at = {} THEN <<s>>
       ELSE LET k == CHOOSE i \in at : \A j \in at : i <= j
            IN <<SubSeq(s, 1, k - 1)>> \o split(SubSeq(s, k + 1, Len(s)), sep)

IsSpace(c) == c \in {" ", "\t", "\n"}

RECURSIVE lstrip(_)
lstrip(s) == IF s # <<>> /\ IsSpace(Head(s)) THEN lstrip(Tail(s)) ELSE s

RECURSIVE rstrip(_)
rstrip(s) ==
    IF s # <<>> /\ IsSpace(s[Len(s)]) THEN rstrip(SubSeq(s, 1, Len(s) - 1)) ELSE s

\* str.strip()
strip(s) == lstrip(rstrip(s))

\* ''.join(list of str)
RECURSIVE join(_)
join(l) == IF l = <<>> THEN <<>> ELSE Head(l) \o join(Tail(l))

(***************************************************************************)
(* dict, kept as the sequence of its items in insertion order              *)
(***************************************************************************)
keys(d) == {d[i].name : i \in 1..Len(d)}

\* d[k]
getitem(d, k) == d[CHOOSE i \in 1..Len(d) : d[i].name = k].content

\* d[k] = v: an existing key keeps its place, a new key goes last
setitem(d, k, v) ==
    IF k \in keys(d)
    THEN [i \in 1..Len(d) |-> IF d[i].name = k THEN [name |-> k, content |-> v] ELSE d[i]]
    ELSE Append(d, [name |-> k, content |-> v])

\* d.update(other)
RECURSIVE update(_, _)
update(d, other) ==
    IF other = <<>> THEN d
    ELSE update(setitem(d, Head(other).name, Head(other).content), Tail(other))

(***************************************************************************)
(* Uploaded files and their decoding                                       *)
(***************************************************************************)
\* bytes.decode('utf-8'), and on UnicodeDecodeError bytes.decode('gbk',
\* errors='ignore'), which never raises.  A byte string is given by whether
\* it is valid UTF-8 and by the text each codec reads in it.
decode(data) == IF data.utf8_ok THEN data.utf8 ELSE data.gbk

\* z.namelist()
namelist(z) == {e.name : e \in z.entries}

\* z.read(filename)
read(z, filename) == (CHOOSE e \in z.entries : e.name = filename).data

\* the filter on the entries of an archive
KeepsEntry(filename) ==
    endswith(filename, ".txt") /\ ~startswith(filename, "__MACOSX")

\* the loop over sorted(z.namelist())
RECURSIVE AddZipEntries(_, _, _)
AddZipEntries(new_files_to_add, names, z) ==
    IF names = <<>> THEN new_files_to_add
    ELSE LET filename == Head(names)
         IN AddZipEntries(
                IF KeepsEntry(filename)
                THEN setitem(new_files_to_add, basename(filename),
                             decode(read(z, filename)))
                ELSE new_files_to_add,
                Tail(names), z)

\* the loop over uploaded_files; zipfile.ZipFile raises BadZipFile on bytes
\* that are no archive, and nothing around it catches that
RECURSIVE CollectNewFiles(_, _)
CollectNewFiles(new_files_to_add, files) ==
    IF files = <<>> THEN [raised |-> Nothing, new |-> new_files_to_add]
    ELSE LET uploaded_file == Head(files)
         IN IF endswith(uploaded_file.name, ".zip")
            THEN IF ~uploaded_file.is_zipfile
                 THEN [raised |-> "BadZipFile", new |-> new_files_to_add]
                 ELSE CollectNewFiles(
                          AddZipEntries(new_files_to_add,
                                        sorted(namelist(uploaded_file)),
                                        uploaded_file),
                          Tail(files))
            ELSE IF endswith(uploaded_file.name, ".txt")
                 THEN CollectNewFiles(
                          setitem(new_files_to_add, uploaded_file.name,
                                  decode(uploaded_file.data)),
                          Tail(files))
                 ELSE CollectNewFiles(new_files_to_add, Tail(files))

\* st.session_state.txt_files.update(new_files_to_add); a faulty variant keeps the
\* content a key already has
MergeKeepOld(files, new_files_to_add) ==
    update(new_files_to_add, files)

MergeNewFiles(files, new_files_to_add) ==
    update(files, new_files_to_add)

(***************************************************************************)
(* create_epub                                                             *)
(***************************************************************************)
NonBlank(p) == strip(p) # <<>>

Paragraph(p) == <<"<p>">> \o strip(p) \o <<"</p>">>

ParagraphNoStrip(p) == <<"<p>">> \o p \o <<"</p>">>

\* html_content of one chapter (a faulty variant does not trim the lines)
RenderNoStrip(chapter_title, content) ==
    LET paragraphs == split(content, "\n")
        kept == SelectSeq(paragraphs, NonBlank)
    IN <<"<h1>">> \o chapter_title \o <<"</h1>">>
       \o join([i \in 1..Len(kept) |-> ParagraphNoStrip(kept[i])])

Render(chapter_title, content) ==
    LET paragraphs == split(content, "\n")
        kept == SelectSeq(paragraphs, NonBlank)
    IN <<"<h1>">> \o chapter_title \o <<"</h1>">>
       \o join([i \in 1..Len(kept) |-> Paragraph(kept[i])])

\* the chapter loop: one EpubHtml per item of chapters_data, in its order
\* (a faulty variant reads the items in the order of their names)
EpubChaptersByName(chapters_data) ==
    LET names == sorted({chapters_data[i].name : i \in 1..Len(chapters_data)})
    IN [i \in 1..Len(names) |->
           [title |-> splitext0(names[i]),
            file_name |-> <<"chap_", i, ".xhtml">>,
            content |-> Render(splitext0(names[i]), getitem(chapters_data, names[i]))]]

EpubChapters(chapters_data) ==
    [i \in 1..Len(chapters_data) |->
        [title |-> splitext0(chapters_data[i].name),
         file_name |-> <<"chap_", i, ".xhtml">>,
         content |-> Render(splitext0(chapters_data[i].name),
                            chapters_data[i].content)]]

\* the cover block: an image PIL cannot open is skipped with a warning, an
\* RGBA image is converted to RGB, and the result is saved as JPEG
CoverOf(cover_image_bytes) ==
    IF cover_image_bytes = None THEN None
    ELSE IF ~cover_image_bytes[1].is_image THEN None
    ELSE Some([file_name |-> "cover.jpg", format |-> "JPEG", mode |-> "RGB",
               pixels |-> cover_image_bytes[1].pixels])

\* the book create_epub hands to epub.write_epub
create_epub(title, author, description, cover_image_bytes, chapters_data) ==
    LET epub_chapters == EpubChapters(chapters_data)
    IN [identifier |-> <<"urn:uuid:", title, "-", author>>,
        title |-> title,
        language |-> "zh",
        author |-> author,
        description |-> IF description # "" THEN Some(description) ELSE None,
        cover |-> CoverOf(cover_image_bytes),
        spine |-> <<"nav">> \o epub_chapters,
        toc |-> epub_chapters]

(***************************************************************************)
(* The script                                                              *)
(***************************************************************************)
\* clear_generated_epub, the on_change callback of every input widget (the
\* faulty variant leaves the generated book in place)
keep_generated_epub(epub) == epub

clear_generated_epub(epub) == None

\* what a script run puts on the page, and the button that started the run
Page(click, exception, message, generate_button, download_button) ==
    [request |-> click, exception |-> exception, message |-> message,
     generate_button |-> generate_button, download_button |-> download_button]

\* sort_items(initial_order): the component has no key, so it is identified by
\* its arguments: it returns the order the user left it in while the items are
\* the same, and the items themselves (its default) once they differ
sort_items(widget, initial_order) ==
    IF widget.items = initial_order THEN widget
    ELSE [items |-> initial_order, value |-> initial_order]

\* chapters_to_process
ChaptersToProcess(files, sorted_filenames) ==
    [i \in 1..Len(sorted_filenames) |->
        [name |-> sorted_filenames[i],
         content |-> getitem(files, sorted_filenames[i])]]

\* the handler of the generate button; raises says whether create_epub (the
\* EPUB library under it) raises.  A faulty variant stores nothing on a failure but
\* does not touch the stored book either.
GenerateKeepOnError(title, author, description, cover, chapters_to_process, epub, raises) ==
    IF title = "" THEN [epub |-> epub, message |-> "title_empty"]
    ELSE IF chapters_to_process = <<>> THEN [epub |-> epub, message |-> "no_chapters"]
    ELSE IF raises THEN [epub |-> epub, message |-> "failed"]
    ELSE [epub |-> Some(create_epub(title, author, description, cover,
                                    chapters_to_process)),
          message |-> "success"]

Generate(title, author, description, cover, chapters_to_process, epub, raises) ==
    IF title = "" THEN [epub |-> epub, message |-> "title_empty"]
    ELSE IF chapters_to_process = <<>> THEN [epub |-> epub, message |-> "no_chapters"]
    ELSE IF raises THEN [epub |-> None, message |-> "failed"]
    ELSE [epub |-> Some(create_epub(title, author, description, cover,
                                    chapters_to_process)),
          message |-> "success"]

\* the upload block: nothing happens without uploaded files; an exception
\* in the loop leaves txt_files as it was, since the update comes after it
StoreNewFiles(files, up) ==
    IF up.raised # Nothing THEN [raised |-> up.raised, txt_files |-> files]
    ELSE [raised |-> Nothing, txt_files |-> MergeNewFiles(files, up.new)]

ProcessUploads(files, uploads) ==
    IF uploads = <<>> THEN [raised |-> Nothing, txt_files |-> files]
    ELSE StoreNewFiles(files, CollectNewFiles(<<>>, uploads))

\* the end of the script: the download button is there when a book is stored
DownloadSection(files, widget, click, gen) ==
    [txt_files |-> files, epub |-> gen.epub, sort_widget |-> widget,
     page |-> Page(click, Nothing, gen.message, TRUE, gen.epub # None)]

\* the two columns: chapters_to_process is built by looking every sorted
\* name up in txt_files, outside any try, on every run
GenerateSection(files, epub, title, author, description, cover, widget, click, raises) ==
    IF \E i \in 1..Len(widget.value) : widget.value[i] \notin keys(files)
    THEN [txt_files |-> files, epub |-> epub, sort_widget |-> widget,
          page |-> Page(click, "KeyError", Nothing, FALSE, FALSE)]
    ELSE DownloadSection(files, widget, click,
             IF click = "generate"
             THEN Generate(title, author, description, cover,
                           ChaptersToProcess(files, widget.value), epub, raises)
             ELSE [epub |-> epub, message |-> Nothing])

\* the script below the main uploader.  An exception nothing catches ends
\* the run where it is raised: what follows is neither executed nor rendered.
MainSection(up, epub, title, author, description, cover, widget, click, raises) ==
    IF up.raised # Nothing
    THEN [txt_files |-> up.txt_files, epub |-> epub, sort_widget |-> widget,
          page |-> Page(click, up.raised, Nothing, FALSE, FALSE)]
    ELSE IF up.txt_files = <<>>
    THEN [txt_files |-> up.txt_files, epub |-> epub,
          sort_widget |-> [items |-> <<>>, value |-> <<>>],
          page |-> Page(click, Nothing, "upload_first", FALSE, FALSE)]
    ELSE GenerateSection(up.txt_files, epub, title, author, description, cover,
                         sort_items(widget, sorted(keys(up.txt_files))),
                         click, raises)

ScriptBody(files, epub, title, author, description, cover, uploads, widget, click, raises) ==
    MainSection(ProcessUploads(files, uploads), epub, title, author, description,
                cover, widget, click, raises)

\* the whole script.  The clear-all button empties txt_files, clears the book
\* and calls st.rerun(), which runs the script again at once, with no button
\* pressed and the widgets as they are.
Script(files, epub, title, author, description, cover, uploads, widget, click, raises) ==
    ScriptBody(IF click = "clear" THEN <<>> ELSE files,
               IF click = "clear" THEN clear_generated_epub(epub) ELSE epub,
               title, author, description, cover, uploads, widget,
               IF click = "clear" THEN Nothing ELSE click, raises)

\* one interaction: the widget values it leaves, then the script run
EndOfRun(r, title, author, description, cover, uploads) ==
    /\ txt_files' = r.txt_files
    /\ epub_file_bytes' = r.epub
    /\ sort_widget' = r.sort_widget
    /\ page' = r.page
    /\ book_title' = title
    /\ author_name' = author
    /\ book_description' = description
    /\ cover_image_file' = cover
    /\ uploaded_files' = uploads

Run(epub, title, author, description, cover, uploads, widget, click, raises) ==
    EndOfRun(Script(txt_files, epub, title, author, description, cover,
                    uploads, widget, click, raises),
             title, author, description, cover, uploads)

(***************************************************************************)
(* Values the user can enter                                               *)
(***************************************************************************)
Titles == {"", "T1"}
Authors == {"A1", "A2"}
Descriptions == {"", "D1"}
Covers == {None,
           Some([is_image |-> TRUE, mode |-> "RGBA", pixels |-> "p1"]),
           Some([is_image |-> FALSE, mode |-> "", pixels |-> ""])}

Utf8(text) == [utf8_ok |-> TRUE, utf8 |-> text, gbk |-> <<>>]
Gbk(text) == [utf8_ok |-> FALSE, utf8 |-> <<>>, gbk |-> text]
NoData == Utf8(<<>>)

TxtFile(name, data) ==
    [name |-> name, data |-> data, is_zipfile |-> FALSE, entries |-> {}]
ZipFile(name, entries) ==
    [name |-> name, data |-> NoData, is_zipfile |-> TRUE, entries |-> entries]
NotAZip(name) ==
    [name |-> name, data |-> NoData, is_zipfile |-> FALSE, entries |-> {}]

a_txt == <<"a", ".txt">>
b_txt == <<"b", ".txt">>
notes_txt == <<"notes", ".txt">>

\* the files offered to the main uploader
UploadChoices ==
    { TxtFile(a_txt, Utf8(<<"x">>)),
      TxtFile(a_txt, Gbk(<<"y", "\n">>)),
      NotAZip(<<"b", ".zip">>),
      ZipFile(<<"a", ".zip">>,
              { [name |-> notes_txt, data |-> Utf8(<<"x">>)],
                [name |-> <<"d", "/", "a", ".txt">>, data |-> Gbk(<<"y">>)],
                [name |-> <<"__MACOSX", "/", "junk">>, data |-> NoData],
                [name |-> <<"cover", ".png">>, data |-> NoData] }) }

Orderings(s) ==
    {p \in [1..Len(s) -> Range(s)] : \A i, j \in 1..Len(s) : p[i] = p[j] => i = j}

RemoveAt(s, i) == SubSeq(s, 1, i - 1) \o SubSeq(s, i + 1, Len(s))

(***************************************************************************)
(* The session                                                             *)
(***************************************************************************)
\* a new session, after the first script run
Init ==
    /\ txt_files = <<>>
    /\ epub_file_bytes = None
    /\ book_title = "T1"
    /\ author_name = "A1"
    /\ book_description = ""
    /\ cover_image_file = None
    /\ uploaded_files = <<>>
    /\ sort_widget = [items |-> <<>>, value |-> <<>>]
    /\ page = Page(Nothing, Nothing, "upload_first", FALSE, FALSE)

ChangeTitle ==
    \E t \in Titles \ {book_title} :
        Run(clear_generated_epub(epub_file_bytes), t, author_name, book_description,
            cover_image_file, uploaded_files, sort_widget, Nothing, FALSE)

ChangeAuthor ==
    \E a \in Authors \ {author_name} :
        Run(clear_generated_epub(epub_file_bytes), book_title, a, book_description,
            cover_image_file, uploaded_files, sort_widget, Nothing, FALSE)

ChangeDescription ==
    \E d \in Descriptions \ {book_description} :
        Run(clear_generated_epub(epub_file_bytes), book_title, author_name, d,
            cover_image_file, uploaded_files, sort_widget, Nothing, FALSE)

ChangeCover ==
    \E c \in Covers \ {cover_image_file} :
        Run(clear_generated_epub(epub_file_bytes), book_title, author_name,
            book_description, c, uploaded_files, sort_widget, Nothing, FALSE)

\* the user adds a file to the main uploader
UploadOf(f) ==
    /\ Len(uploaded_files) < MaxUploads
    /\ f \notin Range(uploaded_files)
    /\ Run(clear_generated_epub(epub_file_bytes), book_title, author_name,
           book_description, cover_image_file, Append(uploaded_files, f),
           sort_widget, Nothing, FALSE)

Upload == \E f \in UploadChoices : UploadOf(f)

\* the user removes a file from the main uploader
RemoveUpload ==
    \E i \in 1..Len(uploaded_files) :
        Run(clear_generated_epub(epub_file_bytes), book_title, author_name,
            book_description, cover_image_file, RemoveAt(uploaded_files, i),
            sort_widget, Nothing, FALSE)

\* the user drags a chapter; sort_items takes no on_change callback
ReorderChapters ==
    /\ page.generate_button
    /\ \E v \in Orderings(sort_widget.items) \ {sort_widget.value} :
        Run(epub_file_bytes, book_title, author_name, book_description,
            cover_image_file, uploaded_files,
            [items |-> sort_widget.items, value |-> v], Nothing, FALSE)

ClickClearAll ==
    Run(epub_file_bytes, book_title, author_name, book_description,
        cover_image_file, uploaded_files, sort_widget, "clear", FALSE)

ClickGenerate ==
    /\ page.generate_button
    /\ \E raises \in BOOLEAN :
        Run(epub_file_bytes, book_title, author_name, book_description,
            cover_image_file, uploaded_files, sort_widget, "generate", raises)

\* st.download_button reruns the script like any button
ClickDownload ==
    /\ page.download_button
    /\ Run(epub_file_bytes, book_title, author_name, book_description,
           cover_image_file, uploaded_files, sort_widget, "download", FALSE)

\* the book is assembled from the manifest the ordering control hands over in
\* the run that the generate button starts
AssembleWith(manifest) ==
    /\ page.generate_button
    /\ \E raises \in BOOLEAN :
        Run(epub_file_bytes, book_title, author_name, book_description,
            cover_image_file, uploaded_files,
            [items |-> sort_widget.items, value |-> manifest], "generate", raises)

Next ==
    \/ ChangeTitle
    \/ ChangeAuthor
    \/ ChangeDescription
    \/ ChangeCover
    \/ Upload
    \/ RemoveUpload
    \/ ReorderChapters
    \/ ClickClearAll
    \/ ClickGenerate
    \/ ClickDownload

Spec == Init /\ [][Next]_vars

(***************************************************************************)
(* Assembly over every manifest                                            *)
(***************************************************************************)
ChapterFiles ==
    { TxtFile(a_txt, Utf8(<<"x">>)),
      TxtFile(b_txt, Utf8(<<"x", "\n", " ", "y">>)),
      TxtFile(notes_txt, Gbk(<<"y">>)) }

\* the sequences of distinct names among s
Manifests(S) ==
    UNION {Orderings(sorted(T)) : T \in SUBSET S}

UploadChapter == \E f \in ChapterFiles : UploadOf(f)

Assemble == \E m \in Manifests({a_txt, b_txt, notes_txt}) : AssembleWith(m)

NextAssemble ==
    \/ UploadChapter
    \/ RemoveUpload
    \/ ChangeTitle
    \/ Assemble

SpecAssemble == Init /\ [][NextAssemble]_vars

(***************************************************************************)
(* Rendering of every text                                                 *)
(***************************************************************************)
TextChars == {"x", "y", " ", "\n"}

Texts == UNION {[1..n -> TextChars] : n \in 0..MaxTextLen}

UploadText ==
    /\ uploaded_files = <<>>
    /\ \E text \in Texts : UploadOf(TxtFile(a_txt, Utf8(text)))

NextRender ==
    \/ UploadText
    \/ ClickGenerate

SpecRender == Init /\ [][NextRender]_vars

(***************************************************************************)
(* Expansion of every archive                                              *)
(***************************************************************************)
EntryNames ==
    { a_txt, b_txt, notes_txt,
      <<"d", "/", "a", ".txt">>,
      <<"cover", ".png">>,
      <<"__MACOSX", "/", "junk">>,
      <<"__MACOSX", "/", "a", ".txt">>,
      <<"__MACOSX", "b", ".txt">>,
      <<"d", "/", "__MACOSX", "/", "b", ".txt">> }

\* the bytes of an entry: entries in a directory are GBK, the others UTF-8
EntryData(name) == IF "/" \in Range(name) THEN Gbk(<<"y">>) ELSE Utf8(<<"x">>)

Archives ==
    { ZipFile(<<"a", ".zip">>, {[name |-> n, data |-> EntryData(n)] : n \in N}) :
        N \in {M \in SUBSET EntryNames : Cardinality(M) <= MaxEntries} }

UploadArchive ==
    /\ uploaded_files = <<>>
    /\ \E z \in Archives : UploadOf(z)

NextExpand == UploadArchive

SpecExpand == Init /\ [][NextExpand]_vars

(***************************************************************************)
(* Properties                                                              *)
(***************************************************************************)
Min(S) == CHOOSE x \in S : \A y \in S : x <= y
Max(S) == CHOOSE x \in S : \A y \in S : y <= x

\* C1: after a successful assembly the spine (behind its nav entry) and the
\* table of contents both hold exactly the manifest's chapters in the
\* manifest's order, entry i of one being entry i of the other, whatever the
\* order of the items of txt_files.
C1_OrderFidelity ==
    page.message = "success" =>
        LET book == epub_file_bytes[1]
            manifest == sort_widget.value
        IN /\ Len(book.toc) = Len(manifest)
           /\ Len(book.spine) = Len(manifest) + 1
           /\ \A i \in 1..Len(manifest) :
                /\ book.spine[i + 1] = book.toc[i]
                /\ book.toc[i].title \o <<".txt">> = manifest[i]
                /\ book.toc[i].file_name = <<"chap_", i, ".xhtml">>
                /\ book.toc[i].content =
                       Render(book.toc[i].title, getitem(txt_files, manifest[i]))

\* manifest [b, a, notes] over a repository filled in the order a, b, notes
C1_Witness ==
    /\ page.message = "success"
    /\ sort_widget.value = <<b_txt, a_txt, notes_txt>>
    /\ [i \in 1..Len(txt_files) |-> txt_files[i].name] = <<a_txt, b_txt, notes_txt>>
    /\ [i \in 1..3 |-> epub_file_bytes[1].toc[i].title] = <<<<"b">>, <<"a">>, <<"notes">>>>

\* what one script run ingests: one item per uploaded .txt file and per kept
\* archive entry, placed by its file and, inside an archive, by its name
Ingestions(uploads) ==
    UNION { IF endswith(uploads[i].name, ".zip")
            THEN { [file |-> i, entry |-> e.name, key |-> basename(e.name),
                    text |-> decode(e.data)] :
                   e \in {x \in uploads[i].entries : KeepsEntry(x.name)} }
            ELSE IF endswith(uploads[i].name, ".txt")
            THEN { [file |-> i, entry |-> uploads[i].name, key |-> uploads[i].name,
                    text |-> decode(uploads[i].data)] }
            ELSE {} : i \in 1..Len(uploads) }

After(x, y) ==
    \/ y.file < x.file
    \/ y.file = x.file /\ StrLess(y.entry, x.entry)

NoDuplicateNames ==
    \A i, j \in 1..Len(txt_files) : txt_files[i].name = txt_files[j].name => i = j

LastWriteWins ==
    page.exception = Nothing =>
        \A x \in Ingestions(uploaded_files) :
            (\A y \in Ingestions(uploaded_files) : y.key = x.key => ~After(y, x))
                => /\ x.key \in keys(txt_files)
                   /\ getitem(txt_files, x.key) = x.text

\* C2: txt_files never holds a name twice; after a run that ingested, every
\* ingested name has the content of its last ingestion; a run whose uploads
\* are those of the run before (a re-ingestion of unchanged files), the
\* clear-all button apart, leaves txt_files as it is.
C2_LastWriteWins ==
    /\ [](NoDuplicateNames /\ LastWriteWins)
    /\ [][(uploaded_files' = uploaded_files /\ ~ClickClearAll)
            => txt_files' = txt_files]_vars

\* a.txt uploaded twice with different bytes: one chapter, the second content
C2_Witness ==
    /\ Len(uploaded_files) = 2
    /\ uploaded_files[1].name = a_txt
    /\ uploaded_files[2].name = a_txt
    /\ page.exception = Nothing
    /\ Cardinality({i \in 1..Len(txt_files) : txt_files[i].name = a_txt}) = 1
    /\ getitem(txt_files, a_txt) = decode(uploaded_files[2].data)
    /\ getitem(txt_files, a_txt) # decode(uploaded_files[1].data)

\* C3: with an empty title no book is stored and no download is offered, and
\* a generate request then ends in the empty-title error.
C3_EmptyTitleNoOutput ==
    book_title = "" =>
        /\ epub_file_bytes = None
        /\ ~page.download_button
        /\ page.request = "generate" => page.message = "title_empty"

C3_Witness ==
    /\ book_title = ""
    /\ page.request = "generate"
    /\ page.message = "title_empty"
    /\ epub_file_bytes = None

UnknownName ==
    \E i \in 1..Len(sort_widget.value) : sort_widget.value[i] \notin keys(txt_files)

\* C4: a generate request whose manifest holds a name that is no key of
\* txt_files is reported as an assembly failure and stores no book.
C4_UnknownChapterReported ==
    (page.request = "generate" /\ txt_files # <<>> /\ UnknownName) =>
        /\ page.exception = Nothing
        /\ page.message = "failed"
        /\ ~page.download_button

\* C5: every valid .txt file and every kept entry of every valid archive the
\* uploader holds is in txt_files, whatever else the uploader holds.
C5_IngestionIsolated ==
    \A x \in Ingestions(uploaded_files) : x.key \in keys(txt_files)

GenerateRejected ==
    page'.request = "generate" /\ page'.message \in {"title_empty", "no_chapters"}

GenerateRaised ==
    page'.request = "generate" /\ page'.message = "failed"

\* C6 as claimed: a generate request that fails leaves the stored book as it was.
C6_FailureKeepsOutput ==
    [][(GenerateRejected \/ GenerateRaised) => epub_file_bytes' = epub_file_bytes]_vars

\* C6 as amended: a generate request rejected for an empty title or an empty
\* chapter list leaves the stored book as it was; one during which
\* create_epub raises leaves no stored book.
C6_FailureKeepsOrClears ==
    [][/\ GenerateRejected => epub_file_bytes' = epub_file_bytes
       /\ GenerateRaised => epub_file_bytes' = None]_vars

C6_Witness ==
    /\ page.request = "generate"
    /\ page.message = "failed"
    /\ epub_file_bytes = None

\* C7: a book offered for download is the book of the current title, author,
\* description, cover, chapter order and txt_files.
C7_CacheValid ==
    page.download_button =>
        epub_file_bytes =
            Some(create_epub(book_title, author_name, book_description,
                             cover_image_file,
                             ChaptersToProcess(txt_files, sort_widget.value)))

\* the lines of a text, by where they start
LineStarts(text) == {1} \cup {i + 1 : i \in {j \in 1..Len(text) : text[j] = "\n"}}

LineAt(text, s) ==
    SubSeq(text, s, Min({j \in s..Len(text) : text[j] = "\n"} \cup {Len(text) + 1}) - 1)

Ink(line) == {i \in 1..Len(line) : line[i] \notin {" ", "\t", "\n"}}

ExpectedParagraphs(text) ==
    LET starts == {s \in LineStarts(text) : Ink(LineAt(text, s)) # {}}
        nth(k) == CHOOSE s \in starts : Cardinality({t \in starts : t < s}) = k - 1
    IN [k \in 1..Cardinality(starts) |->
           SubSeq(LineAt(text, nth(k)), Min(Ink(LineAt(text, nth(k)))),
                  Max(Ink(LineAt(text, nth(k)))))]

\* the paragraph blocks of a run of markup
RECURSIVE Blocks(_)
Blocks(h) ==
    IF h = <<>> THEN <<>>
    ELSE IF Head(h) # "<p>" \/ "</p>" \notin Range(h) THEN <<<<"malformed">>>>
    ELSE LET k == Min({i \in 1..Len(h) : h[i] = "</p>"})
         IN <<SubSeq(h, 2, k - 1)>> \o Blocks(SubSeq(h, k + 1, Len(h)))

\* C8: the markup of a chapter is a heading holding the chapter name and then
\* one paragraph per line of the text that is not blank, holding the line
\* without its leading and trailing whitespace, in the order of the lines.
C8_Rendering ==
    page.message = "success" =>
        LET chapter == epub_file_bytes[1].toc[1]
            n == Len(chapter.title)
        IN /\ chapter.title \o <<".txt">> = txt_files[1].name
           /\ SubSeq(chapter.content, 1, n + 2)
                = <<"<h1>">> \o chapter.title \o <<"</h1>">>
           /\ Blocks(SubSeq(chapter.content, n + 3, Len(chapter.content)))
                = ExpectedParagraphs(txt_files[1].content)

\* "x\n\ny \n" gives the paragraphs "x" and "y"
C8_Witness ==
    /\ page.message = "success"
    /\ txt_files[1].content = <<"x", "\n", "\n", "y", " ", "\n">>
    /\ epub_file_bytes[1].toc[1].content
         = <<"<h1>", "a", "</h1>", "<p>", "x", "</p>", "<p>", "y", "</p>">>

\* an entry inside a directory named __MACOSX
UnderMacDir(name) ==
    \E i \in 1..(Len(name) - 1) :
        /\ name[i] = "__MACOSX"
        /\ name[i + 1] = "/"
        /\ (i = 1 \/ name[i - 1] = "/")

\* C9: the chapters an archive yields are those of its entries that end in
\* .txt and are not under a __MACOSX directory, named by base name without
\* the suffix.
C9_ArchiveFilter ==
    uploaded_files # <<>> =>
        {splitext0(k) : k \in keys(txt_files)}
            = {splitext0(basename(e.name)) :
                 e \in {x \in uploaded_files[1].entries :
                          endswith(x.name, ".txt") /\ ~UnderMacDir(x.name)}}

\* C10: the clear-all button, with the rerun it starts, leaves txt_files
\* empty and no stored book.
C10_ClearAllEmpties ==
    [][ClickClearAll => (txt_files' = <<>> /\ epub_file_bytes' = None)]_vars

====
